---- MODULE Spec2Model ----
(***************************************************************************)
(* A model of the CHIP-8 emulator of src/src/emulator.rs and its SDL       *)
(* front end src/src/io.rs: the Chip8 struct, the run loop, the decoder,   *)
(* the executor and the keypad state.                                      *)
(*                                                                         *)
(* Scope: the SDL calls themselves (event_pump, canvas drawing) are taken  *)
(* to succeed, so IoError is not produced; wall-clock time is replaced by  *)
(* a free choice of whether the 60 Hz gate fires.  Rust integer overflow   *)
(* panics when the build has overflow checks (debug profile) and wraps     *)
(* when it has not (release profile): overflow_checks is fixed per run.    *)
(*                                                                         *)
(* Representation: the two big arrays are kept sparse.  memory, a          *)
(* [u8; 4096], is the function from the addresses of its nonzero bytes to  *)
(* those bytes (Byte reads it, MemWrite writes it); display, a [u8; 2048]  *)
(* of 0/1 cells, is the set of the offsets of its cells that are 1.        *)
(***************************************************************************)
EXTENDS Integers, Sequences, FiniteSets, TLC

VARIABLES
    chip8,            \* the Chip8 struct, with its io field (the IO struct)
    phase,            \* position of Chip8::run: "top", "exec", "poll", "done"
    result,           \* what main got from Chip8::new(..)?.run(): [kind, arg]
    overflow_checks,  \* the build profile: TRUE = arithmetic overflow panics
    polled,           \* history: what the io.poll() of the cycle just ended saw
    key_delivered,    \* history: a wait-for-key got a key code, no press since
    rom,              \* history: the bytes fs::read(rom) returned to Chip8::new
    last_draw,        \* history: the last DXYN that completed
    last_store        \* history: the last FX55 that completed

vars == <<chip8, phase, result, overflow_checks, polled, key_delivered,
          rom, last_draw, last_store>>

(***************************************************************************)
(* Bounds of the model                                                     *)
(***************************************************************************)
\* keypad scancodes that the input events may name: KEYCODES[0..NumKeys-1]
NumKeys == 1
\* most SDL events returned by one event_pump.poll_iter()
MaxEvents == 2

(***************************************************************************)
(* Program constants                                                       *)
(***************************************************************************)
DISPLAY_WIDTH == 64
DISPLAY_HEIGHT == 32
NUMBER_REGS == 16
STACK_SIZE == 16
MEMORY_SIZE == 4096
\* 0x050
FONT_OFFSET == 80
\* 0x200
PROGRAM_START == 512
\* 0x02
PAUSE == 2
\* 0x04
STEP_MODE == 4
\* 0x08
SHOULD_STEP == 8
\* 0x10
RESET == 16
\* 0x20
QUIT == 32
NO_KEY_PRESSED == -2
\* 2^8 and 2^16: the widths of u8 and u16
U8 == 256
U16 == 65536

FONT ==
    << 240, 144, 144, 144, 240,   \* 0
       32, 96, 32, 32, 112,       \* 1
       240, 16, 240, 128, 240,    \* 2
       240, 16, 240, 16, 240,     \* 3
       144, 144, 240, 16, 16,     \* 4
       240, 128, 240, 16, 240,    \* 5
       240, 128, 240, 144, 240,   \* 6
       240, 16, 32, 64, 64,       \* 7
       240, 144, 240, 144, 240,   \* 8
       240, 144, 240, 16, 240,    \* 9
       240, 144, 240, 144, 144,   \* A
       224, 144, 224, 144, 224,   \* B
       240, 128, 128, 128, 240,   \* C
       224, 144, 144, 144, 224,   \* D
       240, 128, 240, 128, 240,   \* E
       240, 128, 240, 128, 128 >> \* F

\* io.rs: the scancode at each keypad position (0-based position p is [p + 1])
KEYCODES ==
    << "1", "2", "3", "4", "Q", "W", "E", "R",
       "A", "S", "D", "F", "Z", "X", "C", "V" >>

POSITION_TO_KEY ==
    << 1, 2, 3, 12, 4, 5, 6, 13, 7, 8, 9, 14, 10, 0, 11, 15 >>

KEY_TO_POSITION ==
    << 13, 0, 1, 2, 4, 5, 6, 8, 9, 10, 12, 14, 3, 7, 11, 15 >>

(***************************************************************************)
(* Machine arithmetic                                                      *)
(***************************************************************************)
\* a value that does not fit an unsigned integer of modulus w
Overflows(v, w) == v < 0 \/ v >= w

\* two's-complement wrap of v to modulus w (wrapping_add, `as u8`, release +)
Wrap(v, w) == ((v % w) + w) % w

RECURSIVE BitAnd(_, _)
BitAnd(a, b) ==
    IF a = 0 \/ b = 0 THEN 0
    ELSE (a % 2) * (b % 2) + 2 * BitAnd(a \div 2, b \div 2)

RECURSIVE BitOr(_, _)
BitOr(a, b) ==
    IF a = 0 THEN b
    ELSE IF b = 0 THEN a
    ELSE (IF a % 2 = 1 \/ b % 2 = 1 THEN 1 ELSE 0) + 2 * BitOr(a \div 2, b \div 2)

RECURSIVE BitXor(_, _)
BitXor(a, b) ==
    IF a = 0 THEN b
    ELSE IF b = 0 THEN a
    ELSE ((a + b) % 2) + 2 * BitXor(a \div 2, b \div 2)

(***************************************************************************)
(* The arrays memory: [u8; MEMORY_SIZE] and display: [u8; 64 * 32]         *)
(***************************************************************************)
\* memory[addr], for addr < MEMORY_SIZE
Byte(memory, addr) == IF addr \in DOMAIN memory THEN memory[addr] ELSE 0

\* memory after memory[addr] = value
MemWrite(memory, addr, value) ==
    [a \in (DOMAIN memory \cup {addr}) \ (IF value = 0 THEN {addr} ELSE {}) |->
        IF a = addr THEN value ELSE memory[a]]

\* display[offset], a cell that is 0 or 1
Cell(disp, offset) == IF offset \in disp THEN 1 ELSE 0

\* display after display[offset] ^= bit
CellXor(disp, offset, bit) ==
    IF BitXor(Cell(disp, offset), bit) = 1 THEN disp \cup {offset}
    ELSE disp \ {offset}

\* [0; DISPLAY_WIDTH * DISPLAY_HEIGHT]
BlankDisplay == {}

\* [0; MEMORY_SIZE]
BlankMemory == [a \in {} |-> 0]

(***************************************************************************)
(* Results of Chip8::new / Chip8::run (error.rs: Chip8Error)               *)
(***************************************************************************)
NoError == [kind |-> "None", arg |-> 0]
Returned == [kind |-> "Ok", arg |-> 0]
RomTooLarge(size) == [kind |-> "RomTooLarge", arg |-> size]
InvalidRegister(reg) == [kind |-> "InvalidRegister", arg |-> reg]
InvalidOpcode(instruction) == [kind |-> "InvalidOpcode", arg |-> instruction]
StackOverflow == [kind |-> "StackOverflow", arg |-> 0]
StackUnderflow == [kind |-> "StackUnderflow", arg |-> 0]
PCOutOfBounds(pc) == [kind |-> "PCOutOfBounds", arg |-> pc]
\* a Rust panic: arithmetic overflow with overflow checks, index out of bounds
Panic == [kind |-> "Panic", arg |-> 0]

\* a Result<(), Chip8Error> together with the struct the call left behind
Ok(c) == [c |-> c, err |-> NoError]
Err(c, e) == [c |-> c, err |-> e]

(***************************************************************************)
(* io.rs: the IO struct (keypad state) and its methods                     *)
(***************************************************************************)
\* IO::new: no key down, no key pressed or released yet
IONew ==
    [ keys_pressed |-> [p \in 0..15 |-> FALSE],
      key_pressed |-> -1,
      key_released |-> -1 ]

\* KEYCODES.iter().position(|&k| k == code): the set holding the position, or {}
Position(code) == {p \in 0..15 : KEYCODES[p + 1] = code}

set_key(io, code) ==
    IF Position(code) # {}
    THEN LET pos == CHOOSE p \in Position(code) : TRUE
         IN  [io EXCEPT !.keys_pressed[pos] = TRUE]
    ELSE io

reset_key(io, code) ==
    IF Position(code) # {}
    THEN LET pos == CHOOSE p \in Position(code) : TRUE
         IN  [io EXCEPT !.keys_pressed[pos] = FALSE,
                        !.key_released = POSITION_TO_KEY[pos + 1]]
    ELSE io

check_key_pressed(io, key) ==
    IF key < 16 THEN io.keys_pressed[KEY_TO_POSITION[key + 1]] ELSE FALSE

\* the loop of get_key_pressed: the last position that is down wins
ScanKeys(io) ==
    LET down == {p \in 0..15 : io.keys_pressed[p]}
    IN  IF down = {} THEN io.key_pressed
        ELSE POSITION_TO_KEY[(CHOOSE p \in down : \A q \in down : q <= p) + 1]

\* returns the IO struct it leaves and the value it returns
get_key_pressed(io) ==
    IF io.key_pressed = io.key_released
    THEN [io |-> [io EXCEPT !.key_pressed = -1], val |-> io.key_pressed]
    ELSE [io |-> [io EXCEPT !.key_pressed = ScanKeys(io)], val |-> NO_KEY_PRESSED]

\* SDL events: Event::Quit, Event::KeyDown{scancode}, Event::KeyUp{scancode}
QuitEvent == [type |-> "Quit", code |-> "None"]
KeyDown(code) == [type |-> "KeyDown", code |-> code]
KeyUp(code) == [type |-> "KeyUp", code |-> code]

\* IO::poll over the events of one poll_iter(), with status so far: the IO
\* struct it leaves and the bitmask it returns.  Quit returns at once and
\* drops the bits collected so far.
RECURSIVE pollFrom(_, _, _)
pollFrom(io, status, events) ==
    IF events = << >> THEN [io |-> io, result |-> status]
    ELSE LET e == Head(events)
             rest == Tail(events)
         IN  IF e.type = "Quit" \/ (e.type = "KeyDown" /\ e.code = "Escape")
             THEN [io |-> io, result |-> QUIT]
             ELSE IF e.type = "KeyDown" /\ e.code = "P"
             THEN pollFrom(io, BitOr(status, PAUSE), rest)
             ELSE IF e.type = "KeyDown" /\ e.code = "M"
             THEN pollFrom(io, BitOr(status, STEP_MODE), rest)
             ELSE IF e.type = "KeyDown" /\ e.code = "N"
             THEN pollFrom(io, BitOr(status, SHOULD_STEP), rest)
             ELSE IF e.type = "KeyDown" /\ e.code = "0"
             THEN pollFrom(io, BitOr(status, RESET), rest)
             ELSE IF e.type = "KeyDown"
             THEN pollFrom(set_key(io, e.code), status, rest)
             ELSE IF e.type = "KeyUp"
             THEN pollFrom(reset_key(io, e.code), status, rest)
             ELSE pollFrom(io, status, rest)

\* mutant: a quit event sets the QUIT bit and the loop goes on
RECURSIVE poll_quit_sets_bit(_, _, _)
poll_quit_sets_bit(io, status, events) ==
    IF events = << >> THEN [io |-> io, result |-> status]
    ELSE LET e == Head(events)
         IN  IF e.type = "Quit" \/ (e.type = "KeyDown" /\ e.code = "Escape")
             THEN poll_quit_sets_bit(io, BitOr(status, QUIT), Tail(events))
             ELSE LET one == pollFrom(io, status, << e >>)
                  IN  poll_quit_sets_bit(one.io, one.result, Tail(events))

poll_from_start_quit_sets_bit(io, events) == poll_quit_sets_bit(io, 0, events)

poll(io, events) == pollFrom(io, 0, events)

(***************************************************************************)
(* emulator.rs: the decoder                                                *)
(***************************************************************************)
\* enum Opcode: the names of its variants
Opcode ==
    { "Clear", "Return", "Jump", "Call", "SkipEqualVal", "SkipNotEqualVal",
      "SkipEqual", "SetVal", "AddVal", "Set", "Or", "And", "Xor", "Add", "SubY",
      "ShiftRight", "SubX", "ShiftLeft", "SkipNotEqual", "SetI", "JumpV0",
      "Random", "Draw", "SkipKey", "SkipNotKey", "GetDelay", "WaitKey",
      "SetDelay", "SetSound", "AddI", "SetSprite", "StoreBCD", "StoreRegs",
      "LoadRegs" }

\* the patterns of the match of decode, in its order: (first_nibble, x, y, n)
\* with -1 for `_`, and the variant of the arm
Patterns ==
    << <<0, 0, 14, 0, "Clear">>, <<0, 0, 14, 14, "Return">>,
       <<1, -1, -1, -1, "Jump">>, <<2, -1, -1, -1, "Call">>,
       <<3, -1, -1, -1, "SkipEqualVal">>, <<4, -1, -1, -1, "SkipNotEqualVal">>,
       <<5, -1, -1, 0, "SkipEqual">>, <<6, -1, -1, -1, "SetVal">>,
       <<7, -1, -1, -1, "AddVal">>, <<8, -1, -1, 0, "Set">>,
       <<8, -1, -1, 1, "Or">>, <<8, -1, -1, 2, "And">>, <<8, -1, -1, 3, "Xor">>,
       <<8, -1, -1, 4, "Add">>, <<8, -1, -1, 5, "SubY">>,
       <<8, -1, -1, 6, "ShiftRight">>, <<8, -1, -1, 7, "SubX">>,
       <<8, -1, -1, 14, "ShiftLeft">>, <<9, -1, -1, 0, "SkipNotEqual">>,
       <<10, -1, -1, -1, "SetI">>, <<11, -1, -1, -1, "JumpV0">>,
       <<12, -1, -1, -1, "Random">>, <<13, -1, -1, -1, "Draw">>,
       <<14, -1, 9, 14, "SkipKey">>, <<14, -1, 10, 1, "SkipNotKey">>,
       <<15, -1, 0, 7, "GetDelay">>, <<15, -1, 0, 10, "WaitKey">>,
       <<15, -1, 1, 5, "SetDelay">>, <<15, -1, 1, 8, "SetSound">>,
       <<15, -1, 1, 14, "AddI">>, <<15, -1, 2, 9, "SetSprite">>,
       <<15, -1, 3, 3, "StoreBCD">>, <<15, -1, 5, 5, "StoreRegs">>,
       <<15, -1, 6, 5, "LoadRegs">> >>

\* the match of decode, lines 208-244, on the fields decode has taken from the
\* word: the Opcode variant with the operands it carries, or the error
match_opcode(k, x, y, n, nn, nnn, current_instruction) ==
    CASE k = 0 /\ x = 0 /\ y = 14 /\ n = 0 -> [op |-> "Clear"]
      [] k = 0 /\ x = 0 /\ y = 14 /\ n = 14 -> [op |-> "Return"]
      [] k = 1 -> [op |-> "Jump", addr |-> nnn]
      [] k = 2 -> [op |-> "Call", addr |-> nnn]
      [] k = 3 -> [op |-> "SkipEqualVal", x |-> x, nn |-> nn]
      [] k = 4 -> [op |-> "SkipNotEqualVal", x |-> x, nn |-> nn]
      [] k = 5 /\ n = 0 -> [op |-> "SkipEqual", x |-> x, y |-> y]
      [] k = 6 -> [op |-> "SetVal", x |-> x, nn |-> nn]
      [] k = 7 -> [op |-> "AddVal", x |-> x, nn |-> nn]
      [] k = 8 /\ n = 0 -> [op |-> "Set", x |-> x, y |-> y]
      [] k = 8 /\ n = 1 -> [op |-> "Or", x |-> x, y |-> y]
      [] k = 8 /\ n = 2 -> [op |-> "And", x |-> x, y |-> y]
      [] k = 8 /\ n = 3 -> [op |-> "Xor", x |-> x, y |-> y]
      [] k = 8 /\ n = 4 -> [op |-> "Add", x |-> x, y |-> y]
      [] k = 8 /\ n = 5 -> [op |-> "SubY", x |-> x, y |-> y]
      [] k = 8 /\ n = 6 -> [op |-> "ShiftRight", x |-> x]
      [] k = 8 /\ n = 7 -> [op |-> "SubX", x |-> x, y |-> y]
      [] k = 8 /\ n = 14 -> [op |-> "ShiftLeft", x |-> x]
      [] k = 9 /\ n = 0 -> [op |-> "SkipNotEqual", x |-> x, y |-> y]
      [] k = 10 -> [op |-> "SetI", addr |-> nnn]
      [] k = 11 -> [op |-> "JumpV0", nnn |-> nnn]
      [] k = 12 -> [op |-> "Random", x |-> x, nn |-> nn]
      [] k = 13 -> [op |-> "Draw", x |-> x, y |-> y, n |-> n]
      [] k = 14 /\ y = 9 /\ n = 14 -> [op |-> "SkipKey", x |-> x]
      [] k = 14 /\ y = 10 /\ n = 1 -> [op |-> "SkipNotKey", x |-> x]
      [] k = 15 /\ y = 0 /\ n = 7 -> [op |-> "GetDelay", x |-> x]
      [] k = 15 /\ y = 0 /\ n = 10 -> [op |-> "WaitKey", x |-> x]
      [] k = 15 /\ y = 1 /\ n = 5 -> [op |-> "SetDelay", x |-> x]
      [] k = 15 /\ y = 1 /\ n = 8 -> [op |-> "SetSound", x |-> x]
      [] k = 15 /\ y = 1 /\ n = 14 -> [op |-> "AddI", x |-> x]
      [] k = 15 /\ y = 2 /\ n = 9 -> [op |-> "SetSprite", x |-> x]
      [] k = 15 /\ y = 3 /\ n = 3 -> [op |-> "StoreBCD", x |-> x]
      [] k = 15 /\ y = 5 /\ n = 5 -> [op |-> "StoreRegs", x |-> x]
      [] k = 15 /\ y = 6 /\ n = 5 -> [op |-> "LoadRegs", x |-> x]
      [] OTHER -> [op |-> "Err", instruction |-> current_instruction]

\* mutant: n is taken with the shift of y (bits 7-4 for bits 3-0)
decode_n_with_shift_of_y(current_instruction) ==
    match_opcode(current_instruction \div 4096,
                 (current_instruction \div 256) % 16,
                 (current_instruction \div 16) % 16,
                 (current_instruction \div 16) % 16,
                 current_instruction % 256,
                 current_instruction % 4096,
                 current_instruction)

\* Chip8::decode: the fields of the word (lines 201-206), then the match
decode(current_instruction) ==
    LET first_nibble == current_instruction \div 4096
        x == (current_instruction \div 256) % 16
        y == (current_instruction \div 16) % 16
        n == current_instruction % 16
        nn == current_instruction % 256
        nnn == current_instruction % 4096
    IN  match_opcode(first_nibble, x, y, n, nn, nnn, current_instruction)

(***************************************************************************)
(* emulator.rs: helpers of the executor                                    *)
(***************************************************************************)
\* `self.pc += d` / `self.pc -= 2` on a u16
AddPc(c, d) ==
    LET v == c.pc + d
    IN  IF Overflows(v, U16)
        THEN IF overflow_checks THEN Err(c, Panic)
             ELSE Ok([c EXCEPT !.pc = Wrap(v, U16)])
        ELSE Ok([c EXCEPT !.pc = v])

\* mutant: the capacity check is off by one (> for >=)
stack_push_off_by_one(c, value) ==
    IF Len(c.stack) > STACK_SIZE THEN Err(c, StackOverflow)
    ELSE Ok([c EXCEPT !.stack = Append(@, value)])

stack_push(c, value) ==
    IF Len(c.stack) >= STACK_SIZE THEN Err(c, StackOverflow)
    ELSE Ok([c EXCEPT !.stack = Append(@, value)])

\* mutant: the oldest entry is popped, not the newest
stack_pop_oldest_first(c) ==
    IF c.stack = << >>
    THEN [c |-> c, err |-> StackUnderflow, val |-> 0]
    ELSE [c |-> [c EXCEPT !.stack = Tail(@)],
          err |-> NoError,
          val |-> Head(c.stack)]

\* the struct it leaves, the error, and the popped value
stack_pop(c) ==
    IF c.stack = << >>
    THEN [c |-> c, err |-> StackUnderflow, val |-> 0]
    ELSE [c |-> [c EXCEPT !.stack = SubSeq(@, 1, Len(@) - 1)],
          err |-> NoError,
          val |-> c.stack[Len(c.stack)]]

\* mutant: the tens digit is not reduced modulo 10
store_bcd_tens_not_reduced(c, x) ==
    IF c.i + 2 >= MEMORY_SIZE THEN Err(c, Panic)
    ELSE LET m1 == MemWrite(c.memory, c.i, (c.regs[x] \div 100) % 10)
             m2 == MemWrite(m1, c.i + 1, c.regs[x] \div 10)
             m3 == MemWrite(m2, c.i + 2, c.regs[x] % 10)
         IN  Ok([c EXCEPT !.memory = m3])

\* an index into memory past its end panics in every build
store_bcd(c, x) ==
    IF c.i + 2 >= MEMORY_SIZE THEN Err(c, Panic)
    ELSE LET m1 == MemWrite(c.memory, c.i, (c.regs[x] \div 100) % 10)
             m2 == MemWrite(m1, c.i + 1, (c.regs[x] \div 10) % 10)
             m3 == MemWrite(m2, c.i + 2, c.regs[x] % 10)
         IN  Ok([c EXCEPT !.memory = m3])

\* the loop of store_regs: for i in 0u16..=x, from idx on
RECURSIVE storeFrom(_, _, _, _, _)
storeFrom(memory, regs, base, x, idx) ==
    IF idx > x THEN memory
    ELSE storeFrom(MemWrite(memory, base + idx, regs[idx]), regs, base, x, idx + 1)

store_regs(c, x) ==
    IF c.i + x >= MEMORY_SIZE THEN Err(c, Panic)
    ELSE Ok([c EXCEPT !.memory = storeFrom(c.memory, c.regs, c.i, x, 0)])

\* mutant: the range excludes x (0..x for 0..=x)
load_regs_exclusive_range(c, x) ==
    IF c.i + x >= MEMORY_SIZE THEN Err(c, Panic)
    ELSE Ok([c EXCEPT !.regs =
                [r \in 0..(NUMBER_REGS - 1) |->
                    IF r < x THEN Byte(c.memory, c.i + r) ELSE @[r]]])

load_regs(c, x) ==
    IF c.i + x >= MEMORY_SIZE THEN Err(c, Panic)
    ELSE Ok([c EXCEPT !.regs =
                [r \in 0..(NUMBER_REGS - 1) |->
                    IF r <= x THEN Byte(c.memory, c.i + r) ELSE @[r]]])

\* mutant: a timer at 0 is decremented too and wraps
handle_timer_without_zero_test(c, fire) ==
    IF fire
    THEN [c EXCEPT !.delay_timer = Wrap(@ - 1, U8),
                   !.sound_timer = Wrap(@ - 1, U8)]
    ELSE c

\* handle_timer, with fire = what timer_60_hz() returned
handle_timer(c, fire) ==
    IF fire
    THEN [c EXCEPT !.delay_timer = IF @ > 0 THEN @ - 1 ELSE @,
                   !.sound_timer = IF @ > 0 THEN @ - 1 ELSE @]
    ELSE c

\* mutant: the row does not stop at the right edge, the columns wrap
RECURSIVE displayBits_wraps_columns(_, _, _, _, _)
displayBits_wraps_columns(c, byte, vx, row, bit_index) ==
    IF bit_index < 0 THEN c
    ELSE LET bit == (byte \div (2 ^ bit_index)) % 2
             screen_x == (vx + (7 - bit_index)) % DISPLAY_WIDTH
             screen_y == row % DISPLAY_HEIGHT
             screen_offset == screen_y * DISPLAY_WIDTH + screen_x
             c1 == IF bit = 1 /\ Cell(c.display, screen_offset) = 1
                   THEN [c EXCEPT !.regs[15] = 1] ELSE c
             c2 == [c1 EXCEPT !.display = CellXor(@, screen_offset, bit)]
         IN  displayBits_wraps_columns(c2, byte, vx, row, bit_index - 1)

\* the inner loop of display: for bit_index in (0..8).rev(), from bit_index on
RECURSIVE displayBits(_, _, _, _, _)
displayBits(c, byte, vx, row, bit_index) ==
    IF bit_index < 0 THEN c
    ELSE LET bit == (byte \div (2 ^ bit_index)) % 2
             screen_x == (vx + (7 - bit_index)) % DISPLAY_WIDTH
             screen_y == row % DISPLAY_HEIGHT
             screen_offset == screen_y * DISPLAY_WIDTH + screen_x
             c1 == IF bit = 1 /\ Cell(c.display, screen_offset) = 1
                   THEN [c EXCEPT !.regs[15] = 1] ELSE c
             c2 == [c1 EXCEPT !.display = CellXor(@, screen_offset, bit)]
         IN  IF screen_x = DISPLAY_WIDTH - 1 THEN c2
             ELSE displayBits(c2, byte, vx, row, bit_index - 1)

\* the outer loop of display: for byte_index in 0..n, from byte_index on
RECURSIVE displayRows(_, _, _, _, _)
displayRows(c, vx, vy, n, byte_index) ==
    IF byte_index >= n THEN Ok(c)
    ELSE IF c.i + byte_index >= MEMORY_SIZE THEN Err(c, Panic)
    ELSE LET c1 == displayBits(c, Byte(c.memory, c.i + byte_index), vx, vy + byte_index, 7)
         IN  IF vy + byte_index = DISPLAY_HEIGHT - 1 THEN Ok(c1)
             ELSE displayRows(c1, vx, vy, n, byte_index + 1)

\* mutant: VF is not cleared before the sprite is drawn
display_keeps_old_flag(c, vx, vy, n) == displayRows(c, vx, vy, n, 0)

display(c, vx, vy, n) == displayRows([c EXCEPT !.regs[15] = 0], vx, vy, n, 0)

(***************************************************************************)
(* emulator.rs: Chip8::execute, one operator per match arm                 *)
(***************************************************************************)
ExecClear(c) == Ok([c EXCEPT !.display = BlankDisplay])

ExecReturn(c) ==
    LET r == stack_pop(c)
    IN  IF r.err # NoError THEN Err(c, r.err)
        ELSE Ok([r.c EXCEPT !.pc = r.val])

ExecJump(c, addr) == Ok([c EXCEPT !.pc = addr])

ExecCall(c, addr) ==
    LET r == stack_push(c, c.pc)
    IN  IF r.err # NoError THEN r
        ELSE Ok([r.c EXCEPT !.pc = addr])

ExecSkipIf(c, cond) == IF cond THEN AddPc(c, 2) ELSE Ok(c)

\* mutant: a plain `+`, which panics on overflow in a checked build
ExecAddVal_unchecked_plus(c, x, nn) ==
    LET v == c.regs[x] + nn
    IN  IF Overflows(v, U8) /\ overflow_checks THEN Err(c, Panic)
        ELSE Ok([c EXCEPT !.regs[x] = Wrap(v, U8)])

\* self.regs[x] = self.regs[x].wrapping_add(nn)
ExecAddVal(c, x, nn) == Ok([c EXCEPT !.regs[x] = Wrap(@ + nn, U8)])

\* mutant: the carry is reported only past 256 (> for >=)
ExecAdd_carry_off_by_one(c, x, y) ==
    LET sum == c.regs[x] + c.regs[y]
    IN  Ok([c EXCEPT !.regs[x] = sum % U8,
                     !.regs[15] = IF sum > U8 THEN 1 ELSE 0])

ExecAdd(c, x, y) ==
    LET sum == c.regs[x] + c.regs[y]
    IN  Ok([c EXCEPT !.regs[x] = sum % U8,
                     !.regs[15] = IF sum >= U8 THEN 1 ELSE 0])

\* mutant: equal operands count as a borrow
ExecSubY_borrow_on_equal(c, x, y) ==
    LET diff == c.regs[x] - c.regs[y]
    IN  Ok([c EXCEPT !.regs[x] = Wrap(diff, U8),
                     !.regs[15] = IF diff <= 0 THEN 0 ELSE 1])

ExecSubY(c, x, y) ==
    LET diff == c.regs[x] - c.regs[y]
    IN  Ok([c EXCEPT !.regs[x] = Wrap(diff, U8),
                     !.regs[15] = IF diff < 0 THEN 0 ELSE 1])

\* mutant: the flag is written before the result
ExecSubX_flag_first(c, x, y) ==
    LET diff == c.regs[y] - c.regs[x]
    IN  Ok([c EXCEPT !.regs[15] = IF diff < 0 THEN 0 ELSE 1,
                     !.regs[x] = Wrap(diff, U8)])

ExecSubX(c, x, y) ==
    LET diff == c.regs[y] - c.regs[x]
    IN  Ok([c EXCEPT !.regs[x] = Wrap(diff, U8),
                     !.regs[15] = IF diff < 0 THEN 0 ELSE 1])

ExecShiftRight(c, x) ==
    LET acc == c.regs[x]
    IN  Ok([c EXCEPT !.regs[x] = acc \div 2,
                     !.regs[15] = BitAnd(acc, 1)])

ExecShiftLeft(c, x) ==
    LET acc == c.regs[x]
    IN  Ok([c EXCEPT !.regs[x] = (acc * 2) % U8,
                     !.regs[15] = BitAnd(acc \div 128, 1)])

\* self.pc = (self.regs[0x0] + (nnn as u8)) as u16: a u8 addition
ExecJumpV0(c, nnn) ==
    LET v == c.regs[0] + (nnn % U8)
    IN  IF Overflows(v, U8)
        THEN IF overflow_checks THEN Err(c, Panic)
             ELSE Ok([c EXCEPT !.pc = Wrap(v, U8)])
        ELSE Ok([c EXCEPT !.pc = v])

ExecDraw(c, x, y, n) ==
    display(c, c.regs[x] % DISPLAY_WIDTH, c.regs[y] % DISPLAY_HEIGHT, n)

ExecSkipKey(c, x) ==
    IF x > 15 THEN Err(c, StackUnderflow)
    ELSE ExecSkipIf(c, check_key_pressed(c.io, c.regs[x]) = TRUE)

ExecSkipNotKey(c, x) ==
    IF x > 15 THEN Err(c, StackOverflow)
    ELSE ExecSkipIf(c, check_key_pressed(c.io, c.regs[x]) = FALSE)

ExecWaitKey(c, x) ==
    LET k == get_key_pressed(c.io)
        c1 == [c EXCEPT !.io = k.io]
    IN  IF k.val = NO_KEY_PRESSED THEN AddPc(c1, -2)
        ELSE Ok([c1 EXCEPT !.regs[x] = Wrap(k.val, U8)])

ExecAddI(c, x) ==
    LET v == c.i + c.regs[x]
    IN  IF Overflows(v, U16)
        THEN IF overflow_checks THEN Err(c, Panic)
             ELSE Ok([c EXCEPT !.i = Wrap(v, U16)])
        ELSE Ok([c EXCEPT !.i = v])

\* let value = (self.regs[(x as usize) & 0xF] * 5) as u16: a u8 product;
\* self.i = MEMORY_SIZE as u16 + value
ExecSetSprite(c, x) ==
    LET v == c.regs[BitAnd(x, 15)] * 5
    IN  IF Overflows(v, U8)
        THEN IF overflow_checks THEN Err(c, Panic)
             ELSE Ok([c EXCEPT !.i = MEMORY_SIZE + Wrap(v, U8)])
        ELSE Ok([c EXCEPT !.i = MEMORY_SIZE + v])

\* rnd is the byte rng.random() returned
execute(opcode, c, rnd) ==
    LET o == opcode
    IN  CASE o.op = "Clear" -> ExecClear(c)
          [] o.op = "Return" -> ExecReturn(c)
          [] o.op = "Jump" -> ExecJump(c, o.addr)
          [] o.op = "Call" -> ExecCall(c, o.addr)
          [] o.op = "SkipEqualVal" -> ExecSkipIf(c, c.regs[o.x] = o.nn)
          [] o.op = "SkipNotEqualVal" -> ExecSkipIf(c, c.regs[o.x] # o.nn)
          [] o.op = "SkipEqual" -> ExecSkipIf(c, c.regs[o.x] = c.regs[o.y])
          [] o.op = "SetVal" -> Ok([c EXCEPT !.regs[o.x] = o.nn])
          [] o.op = "AddVal" -> ExecAddVal(c, o.x, o.nn)
          [] o.op = "Set" -> Ok([c EXCEPT !.regs[o.x] = c.regs[o.y]])
          [] o.op = "Or" -> Ok([c EXCEPT !.regs[o.x] = BitOr(@, c.regs[o.y])])
          [] o.op = "And" -> Ok([c EXCEPT !.regs[o.x] = BitAnd(@, c.regs[o.y])])
          [] o.op = "Xor" -> Ok([c EXCEPT !.regs[o.x] = BitXor(@, c.regs[o.y])])
          [] o.op = "Add" -> ExecAdd(c, o.x, o.y)
          [] o.op = "SubY" -> ExecSubY(c, o.x, o.y)
          [] o.op = "ShiftRight" -> ExecShiftRight(c, o.x)
          [] o.op = "SubX" -> ExecSubX(c, o.x, o.y)
          [] o.op = "ShiftLeft" -> ExecShiftLeft(c, o.x)
          [] o.op = "SkipNotEqual" -> ExecSkipIf(c, c.regs[o.x] # c.regs[o.y])
          [] o.op = "SetI" -> Ok([c EXCEPT !.i = o.addr])
          [] o.op = "JumpV0" -> ExecJumpV0(c, o.nnn)
          [] o.op = "Random" -> Ok([c EXCEPT !.regs[o.x] = BitAnd(rnd, o.nn)])
          [] o.op = "Draw" -> ExecDraw(c, o.x, o.y, o.n)
          [] o.op = "SkipKey" -> ExecSkipKey(c, o.x)
          [] o.op = "SkipNotKey" -> ExecSkipNotKey(c, o.x)
          [] o.op = "GetDelay" -> Ok([c EXCEPT !.regs[o.x] = c.delay_timer])
          [] o.op = "WaitKey" -> ExecWaitKey(c, o.x)
          [] o.op = "SetDelay" -> Ok([c EXCEPT !.delay_timer = c.regs[o.x]])
          [] o.op = "SetSound" -> Ok([c EXCEPT !.sound_timer = c.regs[o.x]])
          [] o.op = "AddI" -> ExecAddI(c, o.x)
          [] o.op = "SetSprite" -> ExecSetSprite(c, o.x)
          [] o.op = "StoreBCD" -> store_bcd(c, o.x)
          [] o.op = "StoreRegs" -> store_regs(c, o.x)
          [] o.op = "LoadRegs" -> load_regs(c, o.x)

\* Chip8::decode_execute: decode self.current_instruction, then execute it
decode_execute(c, rnd) ==
    LET opcode == decode(c.current_instruction)
    IN  IF opcode.op = "Err" THEN Err(c, InvalidOpcode(opcode.instruction))
        ELSE execute(opcode, c, rnd)

(***************************************************************************)
(* ROM files: the programs the emulator is started on                      *)
(***************************************************************************)
\* the bytes of a program given as 16-bit instruction words, big-endian
Bytes(words) ==
    [k \in 1..(2 * Len(words)) |->
        IF k % 2 = 1 THEN words[(k + 1) \div 2] \div 256
        ELSE words[k \div 2] % 256]

Roms ==
    { Bytes(<< \H2200 >>),                          \* call self, forever
      Bytes(<< \H00EE >>),                          \* return on an empty stack
      Bytes(<< \H2204, \H1202, \H00EE >>),          \* call, return, spin
      Bytes(<< \H6005, \HB300 >>),                  \* V0 = 5; jump V0 + 0x300
      Bytes(<< \H6080, \HB280 >>),                  \* V0 = 0x80; jump V0 + 0x280
      Bytes(<< \H6104, \HB108 >>),                  \* V1 = 4; jump V0 + 0x108
      Bytes(<< \H6303, \HF329 >>),                  \* V3 = 3; I = glyph of V3
      Bytes(<< \H6040, \HF029 >>),                  \* V0 = 0x40; I = glyph of V0
      Bytes(<< \HF20A, \H1200 >>),                  \* wait for a key, again
      Bytes(<< \H6001, \HE09E, \H1202, \HE0A1 >>),  \* spin until key 1 is down
      Bytes(<< \H6110, \HE19E, \HE1A1 >>) }         \* V1 = 0x10: no such key

(***************************************************************************)
(* Test programs: short ROMs that set operands up and run one instruction  *)
(***************************************************************************)
\* the instruction word with nibbles k, x, y, n
Word(k, x, y, n) == k * 4096 + x * 256 + y * 16 + n

\* 6XNN: Vx = nn
SetV(x, nn) == Word(6, x, nn \div 16, nn % 16)

\* ANNN: I = nnn
SetIndex(nnn) == 10 * 4096 + nnn

\* register values the test programs use
Operands == {0, 1, 4, 10, 15, 65, 127, 128, 137, 200, 255}

\* the (x, y) register pairs of the two-register instructions
RegPairs == {<<1, 2>>, <<3, 3>>, <<2, 15>>, <<15, 1>>, <<15, 15>>, <<0, 1>>}

\* Vx = a; Vy = b; then 8XY4, 8XY5, 8XY6, 8XY7 or 8XYE
ArithPrograms ==
    { Bytes(<< SetV(p[1], a), SetV(p[2], b), Word(8, p[1], p[2], n) >>) :
        p \in RegPairs, a \in Operands, b \in Operands, n \in {4, 5, 6, 7, 14} }

\* Vx = a; then 7XNN
AddValPrograms ==
    { Bytes(<< SetV(x, a), Word(7, x, nn \div 16, nn % 16) >>) :
        x \in {0, 7, 15}, a \in Operands, nn \in Operands }

\* Vx = v; I = addr; then FX33
BcdPrograms ==
    { Bytes(<< SetV(x, v), SetIndex(addr), Word(15, x, 3, 3) >>) :
        x \in {0, 5, 15}, v \in Operands, addr \in {516, 768, 4093, 4094} }

\* V0..VF = seed + 17k; I = addr; FX55; V0..VF = 3(k + 1); FX65
RegsProgram(x, addr, seed) ==
    Bytes([j \in 1..35 |->
        IF j <= 16 THEN SetV(j - 1, (seed + 17 * (j - 1)) % 256)
        ELSE IF j = 17 THEN SetIndex(addr)
        ELSE IF j = 18 THEN Word(15, x, 5, 5)
        ELSE IF j <= 34 THEN SetV(j - 19, 3 * (j - 18))
        ELSE Word(15, x, 6, 5)])

RegsPrograms ==
    { RegsProgram(x, addr, seed) :
        x \in {0, 3, 15}, addr \in {768, 4080, 4092, 4095}, seed \in {1, 200} }

\* V1 = vx; V2 = vy; I = a1; D12N; V1 = vx + dx; I = a2; D12N; D12N
DrawProgram(vx, vy, n, a1, dx, a2) ==
    Bytes(<< SetV(1, vx), SetV(2, vy), SetIndex(a1), Word(13, 1, 2, n),
             SetV(1, (vx + dx) % 256), SetIndex(a2),
             Word(13, 1, 2, n), Word(13, 1, 2, n) >>)

\* sprites: the font glyphs at 80 and 85, zero bytes at 768, the end of memory
DrawPrograms ==
    { DrawProgram(vx, vy, n, a1, dx, a2) :
        vx \in {0, 58, 63, 200}, vy \in {0, 29, 31, 45}, n \in {0, 1, 5, 15},
        a1 \in {80, 768}, dx \in {0, 2, 8}, a2 \in {80, 85, 4092} }

\* the same with VF as the x or the y coordinate register
DrawFlagPrograms ==
    { Bytes(<< SetV(15, v), SetV(2, w), SetIndex(80),
               Word(13, p[1], p[2], 5), Word(13, p[1], p[2], 5) >>) :
        v \in {0, 1, 60}, w \in {0, 1, 30}, p \in {<<15, 2>>, <<2, 15>>} }

\* a ROM of len bytes: jump 0x200 (12 00), then nonzero filler bytes
FillerRom(len) ==
    [k \in 1..len |-> IF k = 1 THEN 18 ELSE IF k = 2 THEN 0 ELSE ((7 * k) % 255) + 1]

\* ROMs around the largest size that fits, MEMORY_SIZE - PROGRAM_START = 3584
BigRoms == {FillerRom(len) : len \in {3583, 3584, 3585, 4096}}

QuietRoms ==
    ArithPrograms \cup AddValPrograms \cup BcdPrograms \cup RegsPrograms
        \cup DrawPrograms \cup DrawFlagPrograms \cup BigRoms

(***************************************************************************)
(* emulator.rs: construction, reset, fetch, the run loop                   *)
(***************************************************************************)
\* memory[start..start + bytes.len()].copy_from_slice(&bytes)
copy_from_slice(memory, start, bytes) ==
    LET inside(a) == a >= start /\ a < start + Len(bytes)
        value(a) == IF inside(a) THEN bytes[a - start + 1] ELSE Byte(memory, a)
        touched == DOMAIN memory \cup {start + k - 1 : k \in 1..Len(bytes)}
    IN  [a \in {b \in touched : value(b) # 0} |-> value(a)]

\* [0; MEMORY_SIZE] with the font copied in (new, lines 74-75)
FontMemory == copy_from_slice(BlankMemory, FONT_OFFSET, FONT)

\* mutant: a ROM that exactly fills memory is rejected too (>= for >)
new_rejects_exact_fit(data, debug) ==
    LET c == [ display |-> BlankDisplay,
               memory |-> copy_from_slice(FontMemory, PROGRAM_START, data),
               regs |-> [r \in 0..(NUMBER_REGS - 1) |-> 0],
               stack |-> << >>,
               delay_timer |-> 0,
               sound_timer |-> 0,
               running |-> TRUE,
               debug_mode |-> debug,
               paused |-> debug,
               step_mode |-> FALSE,
               should_step |-> FALSE,
               pc |-> 512,
               i |-> 0,
               current_instruction |-> 0,
               io |-> IONew ]
    IN  IF Len(data) + PROGRAM_START >= MEMORY_SIZE
        THEN Err([c EXCEPT !.memory = FontMemory], RomTooLarge(Len(data)))
        ELSE Ok(c)

\* Chip8::new(rom, debug), data = the bytes fs::read(rom) returned.  The fields
\* acc (never read) and last_timer_update (wall-clock time) are left out.
new(data, debug) ==
    LET c == [ display |-> BlankDisplay,
               memory |-> copy_from_slice(FontMemory, PROGRAM_START, data),
               regs |-> [r \in 0..(NUMBER_REGS - 1) |-> 0],
               stack |-> << >>,
               delay_timer |-> 0,
               sound_timer |-> 0,
               running |-> TRUE,
               debug_mode |-> debug,
               paused |-> debug,
               step_mode |-> FALSE,
               should_step |-> FALSE,
               pc |-> 512,
               i |-> 0,
               current_instruction |-> 0,
               io |-> IONew ]
    IN  IF Len(data) + PROGRAM_START > MEMORY_SIZE
        THEN Err([c EXCEPT !.memory = FontMemory], RomTooLarge(Len(data)))
        ELSE Ok(c)

\* Chip8::reset (the draw at its end changes no state)
reset(c) ==
    [c EXCEPT !.display = BlankDisplay,
              !.regs = [r \in 0..(NUMBER_REGS - 1) |-> 0],
              !.pc = 512,
              !.i = 0,
              !.current_instruction = 0,
              !.delay_timer = 0,
              !.sound_timer = 0,
              !.running = TRUE,
              !.paused = c.debug_mode,
              !.step_mode = FALSE,
              !.should_step = FALSE]

\* mutant: the byte at pc is the low byte of the word
fetch_little_endian(c) ==
    LET high_byte == Byte(c.memory, c.pc + 1)
        low_byte == Byte(c.memory, c.pc)
    IN  [c EXCEPT !.current_instruction = high_byte * 256 + low_byte,
                  !.pc = c.pc + 2]

\* Chip8::fetch; run has checked pc < MEMORY_SIZE - 1 before
fetch(c) ==
    LET high_byte == Byte(c.memory, c.pc)
        low_byte == Byte(c.memory, c.pc + 1)
    IN  [c EXCEPT !.current_instruction = high_byte * 256 + low_byte,
                  !.pc = c.pc + 2]

\* the condition of run, line 106: this cycle ticks the timers and fetches
Gate(c) == ~c.paused /\ (~c.step_mode \/ c.should_step)

\* mutant: PAUSE and STEP_MODE are applied without looking at debug_mode
apply_signals_without_debug_check(c, signals) ==
    LET c1 == IF BitAnd(signals, PAUSE) # 0
              THEN [c EXCEPT !.paused = ~c.paused] ELSE c
        c2 == IF BitAnd(signals, STEP_MODE) # 0
              THEN [c1 EXCEPT !.step_mode = ~c1.step_mode] ELSE c1
        c3 == IF BitAnd(signals, SHOULD_STEP) # 0
              THEN [c2 EXCEPT !.should_step = TRUE] ELSE c2
    IN  IF BitAnd(signals, RESET) # 0 THEN reset(c3) ELSE c3

\* run, lines 135-151: the signals of a poll that did not report QUIT
apply_signals(c, signals) ==
    LET c1 == IF BitAnd(signals, PAUSE) # 0 /\ c.debug_mode
              THEN [c EXCEPT !.paused = ~c.paused] ELSE c
        c2 == IF BitAnd(signals, STEP_MODE) # 0 /\ c1.debug_mode
              THEN [c1 EXCEPT !.step_mode = ~c1.step_mode] ELSE c1
        c3 == IF BitAnd(signals, SHOULD_STEP) # 0
              THEN [c2 EXCEPT !.should_step = TRUE] ELSE c2
    IN  IF BitAnd(signals, RESET) # 0 THEN reset(c3) ELSE c3

\* run, lines 122-152: disarm the step, then apply what io.poll() returned
\* (p = the IO struct the poll left and its bitmask)
after_poll(c, p) ==
    LET c1 == IF c.step_mode /\ c.should_step
              THEN [c EXCEPT !.should_step = FALSE] ELSE c
        c2 == [c1 EXCEPT !.io = p.io]
    IN  IF p.result = QUIT THEN [c2 EXCEPT !.running = FALSE]
        ELSE apply_signals(c2, p.result)

(***************************************************************************)
(* Inputs                                                                  *)
(***************************************************************************)
KeypadCodes == {KEYCODES[p + 1] : p \in 0..(NumKeys - 1)}

Events ==
    {QuitEvent}
    \cup {KeyDown(code) : code \in {"Escape", "P", "M", "N", "0"} \cup KeypadCodes}
    \cup {KeyUp(code) : code \in KeypadCodes}

EventSeqs == UNION {[1..k -> Events] : k \in 0..MaxEvents}

\* poll, lines 83-87: the events that end the poll loop with Ok(QUIT)
IsQuit(event) == event = QuitEvent \/ event = KeyDown("Escape")

\* the pending events hold a quit event
HasQuit(events) == \E k \in 1..Len(events) : IsQuit(events[k])

\* the poll loop got to a key-down of a keypad key (no quit before it)
HasPress(events) ==
    \E k \in 1..Len(events) :
        /\ events[k] \in {KeyDown(code) : code \in KeypadCodes}
        /\ \A j \in 1..(k - 1) : ~IsQuit(events[j])

\* io.poll() on the pending events: the IO struct it leaves, the bitmask it
\* returns, and what the events held
PollOutcome(io, events) ==
    LET p == poll(io, events)
    IN  [io |-> p.io, result |-> p.result,
         quit |-> HasQuit(events), press |-> HasPress(events)]

\* no io.poll() yet in this cycle
NotPolled == [result |-> 0, quit |-> FALSE, press |-> FALSE]

\* no DXYN has completed yet
NoDraw == [vx |-> -1, vy |-> -1, sprite |-> << >>,
           before |-> BlankDisplay, after |-> BlankDisplay]

\* the sprite rows a DXYN reads: memory[i .. i + n - 1]
SpriteRows(c, n) == [k \in 1..n |-> Byte(c.memory, c.i + k - 1)]

\* what the DXYN executed in c draws, where, and the display around it
DrawRecord(c, after) ==
    LET o == decode(c.current_instruction)
    IN  [vx |-> c.regs[o.x] % DISPLAY_WIDTH,
         vy |-> c.regs[o.y] % DISPLAY_HEIGHT,
         sprite |-> SpriteRows(c, o.n),
         before |-> c.display, after |-> after.display]

\* no FX55 has completed yet
NoStore == [x |-> -1, i |-> -1,
            regs |-> [r \in 0..(NUMBER_REGS - 1) |-> 0], memory |-> BlankMemory]

\* what the FX55 executed in c stored, where, and the memory it left
StoreRecord(c, after) ==
    [x |-> decode(c.current_instruction).x, i |-> c.i,
     regs |-> c.regs, memory |-> after.memory]

\* FX0A hands a key code 0x0..0xF to Vx
DeliversKey(c) ==
    /\ decode(c.current_instruction).op = "WaitKey"
    /\ get_key_pressed(c.io).val \in 0..15

\* the bytes rng.random() may return; only Random reads one
RandomBytes(c) ==
    IF decode(c.current_instruction).op = "Random" THEN 0..(U8 - 1) ELSE {0}

(***************************************************************************)
(* The state machine                                                       *)
(***************************************************************************)
\* main: Chip8::new(rom, debug)?.run()
Init ==
    \E data \in Roms, debug \in BOOLEAN :
        LET r == new(data, debug)
        IN  /\ chip8 = r.c
            /\ phase = IF r.err = NoError THEN "top" ELSE "done"
            /\ result = r.err
            /\ overflow_checks \in BOOLEAN
            /\ polled = NotPolled
            /\ key_delivered = FALSE
            /\ rom = data
            /\ last_draw = NoDraw
            /\ last_store = NoStore

\* run, line 105: the loop ends once running is false
RunExit ==
    /\ phase = "top"
    /\ ~chip8.running
    /\ phase' = "done"
    /\ result' = Returned
    /\ polled' = NotPolled
    /\ UNCHANGED <<chip8, overflow_checks, key_delivered, rom, last_draw, last_store>>

\* run, lines 105-114: timers, bounds check and fetch when the gate is open
RunFetch(fire) ==
    /\ phase = "top"
    /\ chip8.running
    /\ IF Gate(chip8)
       THEN LET c1 == handle_timer(chip8, fire)
            IN  IF c1.pc >= MEMORY_SIZE - 1
                THEN /\ chip8' = c1
                     /\ phase' = "done"
                     /\ result' = PCOutOfBounds(c1.pc)
                ELSE /\ chip8' = fetch(c1)
                     /\ phase' = "exec"
                     /\ result' = result
       ELSE /\ phase' = "exec"
            /\ UNCHANGED <<chip8, result>>
    /\ polled' = NotPolled
    /\ UNCHANGED <<overflow_checks, key_delivered, rom, last_draw, last_store>>

\* run, line 116: self.decode_execute()?
RunDecodeExecute(rnd) ==
    /\ phase = "exec"
    /\ LET r == decode_execute(chip8, rnd)
           op == decode(chip8.current_instruction).op
       IN  /\ chip8' = r.c
           /\ IF r.err = NoError
              THEN phase' = "poll" /\ result' = result
              ELSE phase' = "done" /\ result' = r.err
           /\ last_draw' = IF op = "Draw" /\ r.err = NoError
                           THEN DrawRecord(chip8, r.c) ELSE last_draw
           /\ last_store' = IF op = "StoreRegs" /\ r.err = NoError
                            THEN StoreRecord(chip8, r.c) ELSE last_store
    /\ key_delivered' = (key_delivered \/ DeliversKey(chip8))
    /\ UNCHANGED <<overflow_checks, polled, rom>>

\* run, lines 118-152: sleep, disarm, poll the pending events, apply the signals
RunPoll ==
    /\ phase = "poll"
    /\ \E o \in {PollOutcome(chip8.io, events) : events \in EventSeqs} :
          /\ chip8' = after_poll(chip8, o)
          /\ polled' = [result |-> o.result, quit |-> o.quit, press |-> o.press]
          /\ key_delivered' = (key_delivered /\ ~o.press)
    /\ phase' = "top"
    /\ UNCHANGED <<result, overflow_checks, rom, last_draw, last_store>>

Next ==
    \/ RunExit
    \/ \E fire \in BOOLEAN : RunFetch(fire)
    \/ \E rnd \in RandomBytes(chip8) : RunDecodeExecute(rnd)
    \/ RunPoll

Spec == Init /\ [][Next]_vars

(***************************************************************************)
(* The run loop on the test programs, debug off, with no input event ever  *)
(* pending                                                                 *)
(***************************************************************************)
InitQuiet ==
    \E data \in QuietRoms :
        LET r == new(data, FALSE)
        IN  /\ chip8 = r.c
            /\ phase = IF r.err = NoError THEN "top" ELSE "done"
            /\ result = r.err
            /\ overflow_checks \in BOOLEAN
            /\ polled = NotPolled
            /\ key_delivered = FALSE
            /\ rom = data
            /\ last_draw = NoDraw
            /\ last_store = NoStore

\* run, lines 118-152 when event_pump.poll_iter() yields nothing
RunPollNoEvents ==
    /\ phase = "poll"
    /\ LET o == PollOutcome(chip8.io, << >>)
       IN  /\ chip8' = after_poll(chip8, o)
           /\ polled' = [result |-> o.result, quit |-> o.quit, press |-> o.press]
           /\ key_delivered' = (key_delivered /\ ~o.press)
    /\ phase' = "top"
    /\ UNCHANGED <<result, overflow_checks, rom, last_draw, last_store>>

NextQuiet ==
    \/ \E fire \in BOOLEAN : RunFetch(fire)
    \/ \E rnd \in RandomBytes(chip8) : RunDecodeExecute(rnd)
    \/ RunPollNoEvents

SpecQuiet == InitQuiet /\ [][NextQuiet]_vars

(***************************************************************************)
(* The run loop, with input events, on programs that move the program      *)
(* counter, the timers and the font table                                  *)
(***************************************************************************)
\* 0x200: jump 0x203; 0x203: V0 = 1; 0x205: jump 0x203
OddJumpProgram == Bytes(<< \H1203, \H0060, \H0112, \H0300 >>)

\* I = 0x050; FX55 with x = 0; spin
\* V0 = 137; I = 0x09D; FX33 with x = 0; spin
FontStorePrograms ==
    { Bytes(<< SetIndex(80), Word(15, 0, 5, 5), \H1204 >>),
      Bytes(<< SetV(0, 137), SetIndex(157), Word(15, 0, 3, 3), \H1206 >>) }

\* V1 = d; delay = V1; V2 = s; sound = V2; spin
TimerPrograms ==
    { Bytes(<< SetV(1, d), Word(15, 1, 1, 5), SetV(2, s), Word(15, 2, 1, 8),
               \H1208 >>) : d \in {0, 2}, s \in {0, 3} }

\* a ROM of 3584 bytes: jump 0xFFE at 0x200, V0 = 1 in the last two bytes of
\* memory, zero bytes between
LastSlotProgram ==
    [k \in 1..(MEMORY_SIZE - PROGRAM_START) |->
        IF k = 1 THEN 31 ELSE IF k = 2 THEN 254
        ELSE IF k = 3583 THEN 96 ELSE IF k = 3584 THEN 1 ELSE 0]

\* jump 0xFFD; jump 0xFFF
EndJumpPrograms == { Bytes(<< \H1FFD >>), Bytes(<< \H1FFF >>) }

ControlRoms ==
    {OddJumpProgram, LastSlotProgram}
        \cup FontStorePrograms \cup TimerPrograms \cup EndJumpPrograms

InitControl ==
    \E data \in ControlRoms, debug \in BOOLEAN :
        LET r == new(data, debug)
        IN  /\ chip8 = r.c
            /\ phase = IF r.err = NoError THEN "top" ELSE "done"
            /\ result = r.err
            /\ overflow_checks \in BOOLEAN
            /\ polled = NotPolled
            /\ key_delivered = FALSE
            /\ rom = data
            /\ last_draw = NoDraw
            /\ last_store = NoStore

SpecControl == InitControl /\ [][Next]_vars

(***************************************************************************)
(* The run loop on programs of calls and returns, debug off, with no input *)
(* event ever pending                                                      *)
(***************************************************************************)
\* 0x200: call 0x204; 0x202: spin; 0x204: call 0x208; 0x206: return;
\* 0x208: return
NestedCallProgram == Bytes(<< \H2204, \H1202, \H2208, \H00EE, \H00EE >>)

\* 0x200: call 0x204; 0x202: spin; 0x204: V0 += 1; 0x206: skip if V0 = depth;
\* 0x208: call 0x204; 0x20A: return
RecursionProgram(depth) ==
    Bytes(<< \H2204, \H1202, \H7001, Word(3, 0, depth \div 16, depth % 16),
             \H2204, \H00EE >>)

\* recursion to 15 and to 16 stack entries, and to a 17th push
CallPrograms ==
    {NestedCallProgram} \cup {RecursionProgram(depth) : depth \in {15, 16, 17}}

InitCalls ==
    \E data \in CallPrograms :
        LET r == new(data, FALSE)
        IN  /\ chip8 = r.c
            /\ phase = IF r.err = NoError THEN "top" ELSE "done"
            /\ result = r.err
            /\ overflow_checks \in BOOLEAN
            /\ polled = NotPolled
            /\ key_delivered = FALSE
            /\ rom = data
            /\ last_draw = NoDraw
            /\ last_store = NoStore

SpecCalls == InitCalls /\ [][NextQuiet]_vars

(***************************************************************************)
(* The first cycle, up to its execute step, of the run on every ROM of one *)
(* instruction word, debug off                                             *)
(***************************************************************************)
\* all the 16-bit instruction words
Words == 0..(U16 - 1)

\* the bytes rng.random() returns in these runs
RandomSample == {0, 255}

InitDecode ==
    \E word \in Words :
        LET data == Bytes(<< word >>)
            r == new(data, FALSE)
        IN  /\ chip8 = r.c
            /\ phase = IF r.err = NoError THEN "top" ELSE "done"
            /\ result = r.err
            /\ overflow_checks = TRUE
            /\ polled = NotPolled
            /\ key_delivered = FALSE
            /\ rom = data
            /\ last_draw = NoDraw
            /\ last_store = NoStore

NextDecode ==
    \/ \E fire \in BOOLEAN : RunFetch(fire)
    \/ \E rnd \in RandomSample : RunDecodeExecute(rnd)

SpecDecode == InitDecode /\ [][NextDecode]_vars

(***************************************************************************)
(* Vocabulary of the properties                                            *)
(***************************************************************************)
\* the instruction the execute step of this cycle decodes
ExecOp == decode(chip8.current_instruction)

\* this step is the execute step of a cycle, and it executes instruction `op`
Executes(op) == phase = "exec" /\ ExecOp.op = op

\* the execute step raised no error and went on to the poll
ExecutedOk == phase' = "poll" /\ result' = NoError

\* the key with logical code k is down (by the position table of the keypad)
LogicalKeyDown(io, k) ==
    \E p \in 0..15 : POSITION_TO_KEY[p + 1] = k /\ io.keys_pressed[p]

\* the fields a RESET rewrites, as they are after construction
AsConstructed(c) ==
    /\ \A r \in 0..(NUMBER_REGS - 1) : c.regs[r] = 0
    /\ c.delay_timer = 0 /\ c.sound_timer = 0
    /\ c.stack = << >>
    /\ \A k \in 0..(DISPLAY_WIDTH * DISPLAY_HEIGHT - 1) : Cell(c.display, k) = 0
    /\ c.pc = PROGRAM_START
    /\ c.i = 0

(***************************************************************************)
(* C1.  A cycle in which the machine is paused, or is in step mode with no *)
(* step armed, is a no-op for the interpreter: its execute step leaves the *)
(* whole Chip8 struct (registers, I, PC, stack, memory, framebuffer,       *)
(* timers) as it was and raises no error.                                  *)
(***************************************************************************)
C1_GatedCycleIsNoOp ==
    [][(phase = "exec" /\ ~Gate(chip8)) => (chip8' = chip8 /\ ExecutedOk)]_vars

(***************************************************************************)
(* C2.  After a RESET signal is applied (a poll that reports RESET and not *)
(* QUIT), registers, timers, stack, framebuffer, PC and I are as after     *)
(* construction, and memory (the loaded program) is unchanged.             *)
(***************************************************************************)
C2_ResetRestoresConstruction ==
    [][(/\ phase = "poll"
        /\ polled'.result # QUIT
        /\ BitAnd(polled'.result, RESET) # 0)
       => (AsConstructed(chip8') /\ chip8'.memory = chip8.memory)]_vars

(***************************************************************************)
(* C3.  The call stack never holds more than 16 return addresses; a call   *)
(* with 16 entries on the stack fails with StackOverflow, a return with an *)
(* empty stack fails with StackUnderflow, and both failures leave the      *)
(* stack and PC as they were before the instruction executed.              *)
(***************************************************************************)
C3_StackDiscipline ==
    [][/\ Len(chip8.stack) <= STACK_SIZE
       /\ Len(chip8'.stack) <= STACK_SIZE
       /\ (Executes("Call") /\ Len(chip8.stack) = STACK_SIZE)
            => (/\ phase' = "done" /\ result' = StackOverflow
                /\ chip8'.stack = chip8.stack /\ chip8'.pc = chip8.pc)
       /\ (Executes("Return") /\ chip8.stack = << >>)
            => (/\ phase' = "done" /\ result' = StackUnderflow
                /\ chip8'.stack = chip8.stack /\ chip8'.pc = chip8.pc)]_vars

\* a 17th nested call was refused with the 16 return addresses still stacked
C3_OverflowReached ==
    /\ phase = "done" /\ result = StackOverflow
    /\ Len(chip8.stack) = STACK_SIZE
    /\ ExecOp.op = "Call"

(***************************************************************************)
(* C4.  Jump-with-V0-offset (BNNN) sets PC to exactly V0 + nnn, the full   *)
(* 12-bit literal plus the 8-bit register, without fault, whatever the x   *)
(* nibble of the instruction is.                                           *)
(***************************************************************************)
C4_JumpV0AddsFullLiteral ==
    [][Executes("JumpV0") =>
        (/\ ExecutedOk
         /\ chip8'.pc = chip8.regs[0] + (chip8.current_instruction % 4096))]_vars

(***************************************************************************)
(* C5.  Sprite-address (FX29) sets I to the address of the font glyph of   *)
(* the low nibble of Vx: I = 0x050 + 5 * (Vx mod 16), inside the font      *)
(* table, where the 5 bytes at I are that glyph's rows.                    *)
(***************************************************************************)
C5_SpriteAddressIsGlyph ==
    [][Executes("SetSprite") =>
        LET digit == chip8.regs[ExecOp.x] % 16
        IN  /\ ExecutedOk
            /\ chip8'.i = FONT_OFFSET + 5 * digit
            /\ chip8'.i + 4 < MEMORY_SIZE
            /\ \A k \in 0..4 :
                    Byte(chip8'.memory, chip8'.i + k) = FONT[5 * digit + k + 1]]_vars

(***************************************************************************)
(* C6.  Wait-for-key (FX0A) stalls by replay: executed with no pending key *)
(* (also before any key was ever pressed) it leaves PC at the address of   *)
(* the instruction and changes no register; Vx is set only when a key is   *)
(* pending, and then to that key's logical code 0x0..0xF with PC left past *)
(* the instruction.                                                        *)
(***************************************************************************)
C6_WaitKeyStallsOrDelivers ==
    [][Executes("WaitKey") =>
        LET pending == chip8.io.key_pressed
            Stall == chip8'.pc = chip8.pc - 2 /\ chip8'.regs = chip8.regs
            Deliver == /\ pending \in 0..15
                       /\ chip8'.regs = [chip8.regs EXCEPT ![ExecOp.x] = pending]
                       /\ chip8'.pc = chip8.pc
        IN  /\ ExecutedOk
            /\ IF pending \in 0..15 THEN Stall \/ Deliver ELSE Stall]_vars

(***************************************************************************)
(* C7.  A key press is delivered to at most one wait-for-key: once a       *)
(* wait-for-key has handed a key code to Vx, every wait-for-key executed   *)
(* before the next key-down of a keypad key reports no pending key, that   *)
(* is, it stalls (PC back on the instruction, no register changed).        *)
(***************************************************************************)
C7_PressDeliveredOnce ==
    [][(Executes("WaitKey") /\ key_delivered) =>
        (/\ ExecutedOk
         /\ chip8'.pc = chip8.pc - 2
         /\ chip8'.regs = chip8.regs)]_vars

(***************************************************************************)
(* C8.  Skip-if-key-pressed (EX9E) and skip-if-key-not-pressed (EXA1) fail *)
(* with InvalidRegister and leave PC alone when Vx > 0xF; when Vx <= 0xF   *)
(* PC advances by an extra 2 exactly when the key with that logical code   *)
(* is down (EX9E) or not down (EXA1).                                      *)
(***************************************************************************)
C8_SkipKeyChecksVx ==
    [][(Executes("SkipKey") \/ Executes("SkipNotKey")) =>
        LET vx == chip8.regs[ExecOp.x]
            down == LogicalKeyDown(chip8.io, vx)
            skips == IF ExecOp.op = "SkipKey" THEN down ELSE ~down
        IN  IF vx > 15
            THEN /\ phase' = "done" /\ result' = InvalidRegister(vx)
                 /\ chip8'.pc = chip8.pc
            ELSE /\ ExecutedOk
                 /\ chip8'.pc = chip8.pc + (IF skips THEN 2 ELSE 0)]_vars

(***************************************************************************)
(* C9.  Quit is terminal and honoured within one cycle: whenever the       *)
(* events of a poll hold a quit event the run loop stops at that poll, the *)
(* stopping poll applies no pause, step or reset signal, the loop then     *)
(* returns without fetching or executing anything, and nothing happens     *)
(* after it returned; also while stalled on a wait-for-key.                *)
(***************************************************************************)
C9_QuitStopsTheLoop ==
    [][/\ phase = "poll" =>
            /\ polled'.quit => ~chip8'.running
            /\ ~chip8'.running =>
                    /\ chip8'.paused = chip8.paused
                    /\ chip8'.step_mode = chip8.step_mode
                    /\ chip8'.should_step => chip8.should_step
                    /\ chip8'.pc = chip8.pc
                    /\ chip8'.current_instruction = chip8.current_instruction
                    /\ chip8'.regs = chip8.regs
                    /\ chip8'.i = chip8.i
                    /\ chip8'.stack = chip8.stack
                    /\ chip8'.delay_timer = chip8.delay_timer
                    /\ chip8'.sound_timer = chip8.sound_timer
                    /\ chip8'.display = chip8.display
                    /\ chip8'.memory = chip8.memory
       /\ (phase = "top" /\ ~chip8.running) =>
            (phase' = "done" /\ result' = Returned /\ chip8' = chip8)
       /\ phase # "done"]_vars

\* the run returned Ok on a quit polled while the program was stalled on the
\* wait-for-key at 0x200 (PC put back on it)
C9_QuitWhileStalled ==
    /\ phase = "done" /\ result = Returned
    /\ ExecOp.op = "WaitKey"
    /\ chip8.pc = PROGRAM_START

(***************************************************************************)
(* C10.  With debug mode off the machine is never paused and never in step *)
(* mode, whatever signals are polled, so every cycle of a running machine  *)
(* fetches (PC advances by 2 and the execute step follows) unless the      *)
(* fetch address is out of bounds.                                         *)
(***************************************************************************)
C10_NoDebugNeverGated ==
    [][~chip8.debug_mode =>
        /\ ~chip8.paused /\ ~chip8.step_mode
        /\ ~chip8'.paused /\ ~chip8'.step_mode
        /\ (phase = "top" /\ chip8.running) =>
              \/ /\ phase' = "exec"
                 /\ chip8'.pc = chip8.pc + 2
                 /\ chip8'.current_instruction =
                        Byte(chip8.memory, chip8.pc) * 256
                            + Byte(chip8.memory, chip8.pc + 1)
              \/ /\ phase' = "done"
                 /\ result' = PCOutOfBounds(chip8.pc)]_vars

\* debug off, an ADVANCE_STEP signal was polled, and the next cycle fetched
C10_SignalsPolledStillRunning ==
    /\ ~chip8.debug_mode
    /\ chip8.should_step
    /\ phase = "exec"
    /\ chip8.current_instruction # 0

(***************************************************************************)
(* C13.  Add (8XY4) with x other than 0xF never faults and leaves          *)
(* Vx = (a + b) mod 256 and VF = 1 if a + b >= 256, else 0, where a and b  *)
(* are the values of Vx and Vy before it (b = a when x = y).               *)
(***************************************************************************)
C13_AddWrapsWithCarry ==
    [][(Executes("Add") /\ ExecOp.x # 15) =>
        LET a == chip8.regs[ExecOp.x]
            b == chip8.regs[ExecOp.y]
        IN  /\ ExecutedOk
            /\ chip8'.regs[ExecOp.x] = (a + b) % 256
            /\ chip8'.regs[15] = IF a + b >= 256 THEN 1 ELSE 0]_vars

\* V3 = 200 was added to itself: V3 = 144 with the carry set
C13_AddedToItselfWithCarry ==
    /\ phase = "poll"
    /\ ExecOp.op = "Add" /\ ExecOp.x = 3 /\ ExecOp.y = 3
    /\ chip8.regs[3] = 144 /\ chip8.regs[15] = 1

(***************************************************************************)
(* C14.  With x other than 0xF, sub-y-from-x (8XY5) leaves                 *)
(* Vx = (a - b) mod 256 and VF = 1 iff a >= b; sub-x-from-y (8XY7) leaves  *)
(* Vx = (b - a) mod 256 and VF = 1 iff b >= a; Vy is unchanged when y is   *)
(* neither x nor 0xF.                                                      *)
(***************************************************************************)
C14_SubBorrowFlag ==
    [][((Executes("SubY") \/ Executes("SubX")) /\ ExecOp.x # 15) =>
        LET a == chip8.regs[ExecOp.x]
            b == chip8.regs[ExecOp.y]
            minuend == IF ExecOp.op = "SubY" THEN a ELSE b
            subtrahend == IF ExecOp.op = "SubY" THEN b ELSE a
        IN  /\ ExecutedOk
            /\ chip8'.regs[ExecOp.x] = (minuend - subtrahend) % 256
            /\ chip8'.regs[15] = IF minuend >= subtrahend THEN 1 ELSE 0
            /\ (ExecOp.y # ExecOp.x /\ ExecOp.y # 15)
                    => chip8'.regs[ExecOp.y] = b]_vars

\* 10 - 15 by 8XY5: V1 = 251 with VF = 0 (a borrow), V2 still 15
C14_SubtractedWithBorrow ==
    /\ phase = "poll"
    /\ ExecOp.op = "SubY" /\ ExecOp.x = 1 /\ ExecOp.y = 2
    /\ chip8.regs[1] = 251 /\ chip8.regs[2] = 15 /\ chip8.regs[15] = 0

(***************************************************************************)
(* C15.  For add, sub-y-from-x, sub-x-from-y, shift-right and shift-left   *)
(* the flag is the last write to VF and is computed from the values the    *)
(* operands held before the instruction: VF ends as the carry, no-borrow   *)
(* or shifted-out bit also when the destination x is 0xF; for the shifts   *)
(* it is the low (right) or high (left) bit of the Vx before the shift.    *)
(***************************************************************************)
C15_FlagIsLastWrite ==
    [][(\E op \in {"Add", "SubY", "SubX", "ShiftRight", "ShiftLeft"} :
            Executes(op)) =>
        LET a == chip8.regs[ExecOp.x]
            b == IF ExecOp.op \in {"Add", "SubY", "SubX"}
                 THEN chip8.regs[ExecOp.y] ELSE 0
            flag == CASE ExecOp.op = "Add" -> IF a + b >= 256 THEN 1 ELSE 0
                      [] ExecOp.op = "SubY" -> IF a >= b THEN 1 ELSE 0
                      [] ExecOp.op = "SubX" -> IF b >= a THEN 1 ELSE 0
                      [] ExecOp.op = "ShiftRight" -> a % 2
                      [] ExecOp.op = "ShiftLeft" -> a \div 128
        IN  /\ ExecutedOk
            /\ chip8'.regs[15] = flag]_vars

\* 8FFE on VF = 65: the result 130 was overwritten by the shifted-out bit 0;
\* 8F17 on VF = 200, V1 = 10: the result 66 was overwritten by the borrow 0
C15_FlagOverwroteResult ==
    /\ phase = "poll"
    /\ chip8.regs[15] = 0
    /\ \/ ExecOp.op = "ShiftLeft" /\ ExecOp.x = 15
          /\ rom[2] = 65 /\ rom[4] = 65
       \/ ExecOp.op = "SubX" /\ ExecOp.x = 15 /\ ExecOp.y = 1
          /\ rom[2] = 200 /\ rom[4] = 10

(***************************************************************************)
(* C17.  Add-immediate (7XNN), for every x including 0xF, leaves           *)
(* Vx = (a + nn) mod 256, never faults on overflow and changes no other    *)
(* register: VF is not written as a carry flag.                            *)
(***************************************************************************)
C17_AddImmediateWraps ==
    [][Executes("AddVal") =>
        /\ ExecutedOk
        /\ chip8'.regs = [chip8.regs EXCEPT
                ![ExecOp.x] = (chip8.regs[ExecOp.x] + ExecOp.nn) % 256]]_vars

\* 200 + 200 by 7XNN: V7 = 144 and VF still 0; the same on VF: VF = 144
C17_AddedPastTheByte ==
    /\ phase = "poll"
    /\ ExecOp.op = "AddVal" /\ ExecOp.nn = 200
    /\ chip8.regs[ExecOp.x] = 144
    /\ ExecOp.x = 7 => chip8.regs[15] = 0

(***************************************************************************)
(* Vocabulary of C11: the cells a DXYN draws on                            *)
(***************************************************************************)
\* the offsets of the cells the sprite bits equal to 1 land on: row r, column
\* col of the sprite, kept when it is on the screen (clipped at the edges)
DrawnCells(c) ==
    LET o == decode(c.current_instruction)
        vx == c.regs[o.x] % DISPLAY_WIDTH
        vy == c.regs[o.y] % DISPLAY_HEIGHT
        set(r, col) == (Byte(c.memory, c.i + r) \div (2 ^ (7 - col))) % 2 = 1
    IN  { (vy + rc[1]) * DISPLAY_WIDTH + vx + rc[2] :
            rc \in { q \in (0..(o.n - 1)) \X (0..7) :
                        /\ vy + q[1] < DISPLAY_HEIGHT
                        /\ vx + q[2] < DISPLAY_WIDTH
                        /\ set(q[1], q[2]) } }

\* a completed draw XORs the drawn cells in and reports in VF whether one of
\* them was 1 before
DrawFlagRule ==
    (Executes("Draw") /\ ExecutedOk) =>
        LET cells == DrawnCells(chip8)
        IN  /\ chip8'.regs[15] = IF cells \cap chip8.display # {} THEN 1 ELSE 0
            /\ chip8'.display = (chip8.display \ cells) \cup (cells \ chip8.display)
            /\ chip8.display = BlankDisplay => chip8'.regs[15] = 0

\* this step draws, on top of the last draw and with nothing drawn or cleared
\* in between, the same sprite at the same position, one set bit visible
Redraws ==
    /\ Executes("Draw") /\ ExecutedOk
    /\ last_draw.after = chip8.display
    /\ last_draw.vx = chip8.regs[ExecOp.x] % DISPLAY_WIDTH
    /\ last_draw.vy = chip8.regs[ExecOp.y] % DISPLAY_HEIGHT
    /\ last_draw.sprite = SpriteRows(chip8, ExecOp.n)
    /\ DrawnCells(chip8) # {}

(***************************************************************************)
(* C11 as claimed.  After a sprite draw (DXYN) VF is 1 iff a drawn sprite  *)
(* bit equal to 1 landed on a cell that was 1, whatever VF held before, so *)
(* a draw onto an all-zero framebuffer gives VF = 0; and drawing a sprite  *)
(* with a visible set bit a second time at the same position gives VF = 1  *)
(* and restores the framebuffer to its content before the first draw.      *)
(***************************************************************************)
C11_SecondDrawAlwaysCollides ==
    [][/\ DrawFlagRule
       /\ Redraws => (/\ chip8'.regs[15] = 1
                      /\ chip8'.display = last_draw.before)]_vars

(***************************************************************************)
(* C11 as amended.  After a sprite draw (DXYN) VF is 1 iff a drawn sprite  *)
(* bit equal to 1 landed on a cell that was 1, whatever VF held before, so *)
(* a draw onto an all-zero framebuffer gives VF = 0; and drawing a sprite  *)
(* with a visible set bit a second time at the same position restores the  *)
(* framebuffer to its content before the first draw, with VF = 1 iff one   *)
(* of its set bits had landed on a cell that was 0 before the first draw.  *)
(***************************************************************************)
C11_CollisionFlag ==
    [][/\ DrawFlagRule
       /\ Redraws => (/\ chip8'.regs[15] =
                            IF DrawnCells(chip8) \ last_draw.before # {}
                            THEN 1 ELSE 0
                      /\ chip8'.display = last_draw.before)]_vars

\* the second draw of glyph 0 at the same place erased it: VF = 1 and the
\* framebuffer is blank again, as it was before the first draw
C11_RedrawErased ==
    /\ phase = "poll"
    /\ ExecOp.op = "Draw"
    /\ chip8.regs[15] = 1
    /\ chip8.display = BlankDisplay
    /\ last_draw.before # BlankDisplay
    /\ last_draw.after = BlankDisplay
    /\ last_draw.sprite = << 240, 144, 144, 144, 240 >>

(***************************************************************************)
(* C12.  With I + x < 4096, store-registers (FX55) copies V0..Vx to        *)
(* memory[I..I+x] and leaves the registers and I unchanged; a              *)
(* load-registers (FX65) with the same x and I afterwards, also when       *)
(* V0..Vx were overwritten in between, restores V0..Vx to the stored       *)
(* values, leaves Vx+1..VF untouched and leaves I unchanged.               *)
(***************************************************************************)
C12_StoreLoadRoundTrip ==
    [][/\ (Executes("StoreRegs") /\ chip8.i + ExecOp.x < MEMORY_SIZE) =>
            /\ ExecutedOk
            /\ \A k \in 0..ExecOp.x :
                    Byte(chip8'.memory, chip8.i + k) = chip8.regs[k]
            /\ chip8'.regs = chip8.regs
            /\ chip8'.i = chip8.i
       /\ (Executes("LoadRegs") /\ chip8.i + ExecOp.x < MEMORY_SIZE) =>
            /\ ExecutedOk
            /\ chip8'.i = chip8.i
            /\ \A r \in (ExecOp.x + 1)..(NUMBER_REGS - 1) :
                    chip8'.regs[r] = chip8.regs[r]
            /\ (/\ last_store.x = ExecOp.x
                /\ last_store.i = chip8.i
                /\ last_store.memory = chip8.memory)
                => \A k \in 0..ExecOp.x : chip8'.regs[k] = last_store.regs[k]]_vars

\* FX65 brought V0..V3 back from memory[4092..4095] after all sixteen
\* registers had been overwritten; V4 kept its overwritten value
C12_PrefixRestored ==
    /\ phase = "poll"
    /\ ExecOp.op = "LoadRegs" /\ ExecOp.x = 3
    /\ chip8.i = 4092
    /\ last_store.x = 3 /\ last_store.i = 4092
    /\ \A k \in 0..3 : chip8.regs[k] = last_store.regs[k] /\ chip8.regs[k] # 3 * (k + 1)
    /\ chip8.regs[4] = 15 /\ last_store.regs[4] # 15

(***************************************************************************)
(* C16.  With I + 2 < 4096, store-bcd (FX33) writes memory[I] = v div 100, *)
(* memory[I+1] = (v div 10) mod 10 and memory[I+2] = v mod 10 for the      *)
(* value v of Vx, and changes no other memory byte, no register and not I. *)
(***************************************************************************)
C16_StoreBcdDigits ==
    [][(Executes("StoreBCD") /\ chip8.i + 2 < MEMORY_SIZE) =>
        LET v == chip8.regs[ExecOp.x]
        IN  /\ ExecutedOk
            /\ \A a \in 0..(MEMORY_SIZE - 1) :
                    Byte(chip8'.memory, a) =
                        IF a = chip8.i THEN v \div 100
                        ELSE IF a = chip8.i + 1 THEN (v \div 10) % 10
                        ELSE IF a = chip8.i + 2 THEN v % 10
                        ELSE Byte(chip8.memory, a)
            /\ chip8'.regs = chip8.regs
            /\ chip8'.i = chip8.i]_vars

\* 137 was stored as 1, 3, 7 in the last three bytes of memory
C16_StoredAtTheEnd ==
    /\ phase = "poll"
    /\ ExecOp.op = "StoreBCD"
    /\ chip8.regs[ExecOp.x] = 137
    /\ chip8.i = 4093
    /\ Byte(chip8.memory, 4093) = 1
    /\ Byte(chip8.memory, 4094) = 3
    /\ Byte(chip8.memory, 4095) = 7

(***************************************************************************)
(* C19.  A ROM of L bytes is rejected with RomTooLarge iff                 *)
(* L > 4096 - 0x200 = 3584, before any run-loop cycle: nothing is fetched  *)
(* or executed.  A ROM that is accepted, one of exactly 3584 bytes         *)
(* included, is in memory from 0x200 on (up to 0xFFF for 3584 bytes) when  *)
(* the run loop starts, with the font table at 0x050..0x09F intact.        *)
(***************************************************************************)
C19_RomTooLargeIffOver3584 ==
    LET rejected == result.kind = "RomTooLarge"
        starting == /\ phase = "top" /\ chip8.pc = PROGRAM_START
                    /\ chip8.current_instruction = 0
                    /\ polled = NotPolled
    IN  /\ rejected <=> Len(rom) > 3584
        /\ rejected =>
              /\ result = RomTooLarge(Len(rom))
              /\ phase = "done"
              /\ chip8.pc = PROGRAM_START
              /\ chip8.current_instruction = 0
        /\ (starting /\ ~rejected) =>
              /\ \A k \in 1..Len(rom) :
                    Byte(chip8.memory, PROGRAM_START + k - 1) = rom[k]
              /\ \A k \in 1..Len(FONT) :
                    Byte(chip8.memory, FONT_OFFSET + k - 1) = FONT[k]

\* the ROM of exactly 3584 bytes was accepted and its jump executed; its last
\* byte is in the last byte of memory
C19_ExactFitRuns ==
    /\ Len(rom) = 3584
    /\ phase = "poll"
    /\ ExecOp.op = "Jump"
    /\ Byte(chip8.memory, MEMORY_SIZE - 1) = rom[3584]
    /\ rom[3584] # 0

(***************************************************************************)
(* Vocabulary of C18                                                       *)
(***************************************************************************)
\* the arms of decode whose pattern the word matches
Matching(word) ==
    LET field == << word \div 4096, (word \div 256) % 16,
                    (word \div 16) % 16, word % 16 >>
    IN  { j \in 1..Len(Patterns) :
            \A f \in 1..4 : Patterns[j][f] = -1 \/ Patterns[j][f] = field[f] }

\* a word matches the pattern of at most one arm; a word that matches none is
\* refused with InvalidOpcode carrying it, the machine left as it was; a word
\* that matches one decodes to that arm's variant, one of `count` variants
DecodesToOneOf(count) ==
    phase = "exec" =>
        LET word == chip8.current_instruction
            arms == Matching(word)
            opcode == decode(word)
        IN  /\ Cardinality(arms) <= 1
            /\ arms = {} =>
                  /\ opcode = [op |-> "Err", instruction |-> word]
                  /\ phase' = "done"
                  /\ result' = InvalidOpcode(word)
                  /\ chip8' = chip8
            /\ \A j \in arms :
                  /\ opcode.op = Patterns[j][5]
                  /\ opcode.op \in Opcode
                  /\ result' # InvalidOpcode(word)
            /\ Cardinality(Opcode) = count
            /\ {Patterns[j][5] : j \in 1..Len(Patterns)} = Opcode

(***************************************************************************)
(* C18 as claimed.  Decode is total and unambiguous over all 65536 words:  *)
(* each word yields exactly one instruction variant out of a set of        *)
(* exactly 35, or InvalidOpcode carrying the word; no word matches the     *)
(* patterns of two variants, and decoding changes no emulator state.       *)
(***************************************************************************)
C18_DecodeTotalOver35 == [][DecodesToOneOf(35)]_vars

(***************************************************************************)
(* C18 as amended.  Decode is total and unambiguous over all 65536 words:  *)
(* each word yields exactly one instruction variant out of a set of        *)
(* exactly 34, or InvalidOpcode carrying the word; no word matches the     *)
(* patterns of two variants, and decoding changes no emulator state.       *)
(***************************************************************************)
C18_DecodeTotalOver34 == [][DecodesToOneOf(34)]_vars

\* 5XY1 is no instruction (only 5XY0 is): the word 0x5121 was refused
C18_RefusedWord ==
    /\ phase = "done"
    /\ result = InvalidOpcode(20769)
    /\ chip8.current_instruction = 20769
    /\ chip8.pc = PROGRAM_START + 2

(***************************************************************************)
(* C21.  PC is even in every reachable state: starting from 0x200, after   *)
(* any sequence of fetches and executed instructions of any loaded program *)
(* and any resets, PC mod 2 = 0.                                           *)
(***************************************************************************)
C21_PcAlwaysEven == chip8.pc % 2 = 0

(***************************************************************************)
(* C22.  The font table is never mutated after initialization: in every    *)
(* reachable state, for any loaded program and any sequence of executed    *)
(* instructions and resets, memory[0x050..0x09F] equals the 80 bytes of    *)
(* the built-in font.                                                      *)
(***************************************************************************)
C22_FontNeverMutated ==
    \A k \in 1..Len(FONT) : Byte(chip8.memory, FONT_OFFSET + k - 1) = FONT[k]

(***************************************************************************)
(* C23.  Sprite draw wraps only the starting position and clips            *)
(* afterwards: with sx = Vx mod 64 and sy = Vy mod 32, a completed draw of *)
(* n rows changes only framebuffer cells (col, row) with                   *)
(* sx <= col <= min(sx + 7, 63) and sy <= row <= min(sy + n - 1, 31);      *)
(* sprite bits that would fall past column 63 or row 31 are dropped and    *)
(* never appear at column 0.. or row 0.., and every cell in that rectangle *)
(* is XORed with its sprite bit.                                           *)
(***************************************************************************)
C23_DrawWrapsStartThenClips ==
    [][(Executes("Draw") /\ ExecutedOk) =>
        LET sx == chip8.regs[ExecOp.x] % 64
            sy == chip8.regs[ExecOp.y] % 32
            last_col == IF sx + 7 < 63 THEN sx + 7 ELSE 63
            last_row == IF sy + ExecOp.n - 1 < 31 THEN sy + ExecOp.n - 1 ELSE 31
            sprite_bit(col, row) ==
                (Byte(chip8.memory, chip8.i + (row - sy))
                    \div (2 ^ (7 - (col - sx)))) % 2
            flipped == { row * 64 + col : col \in sx..last_col, row \in sy..last_row }
                       \cap { row * 64 + col : col \in 0..63, row \in 0..31 }
        IN  /\ \A col \in sx..last_col, row \in sy..last_row :
                  Cell(chip8'.display, row * 64 + col) =
                      (Cell(chip8.display, row * 64 + col) + sprite_bit(col, row)) % 2
            /\ \A offset \in (chip8.display \cup chip8'.display) \ flipped :
                  Cell(chip8'.display, offset) = Cell(chip8.display, offset)
            /\ chip8'.display \subseteq 0..(64 * 32 - 1)]_vars

\* glyph 0 (F0 90 90 90 F0) was drawn at (63, 31) on a blank framebuffer: only
\* the corner cell is lit, nothing in column 0 or row 0
C23_CornerDrawClipped ==
    /\ phase = "poll"
    /\ ExecOp.op = "Draw" /\ ExecOp.n = 5
    /\ last_draw.vx = 63 /\ last_draw.vy = 31
    /\ last_draw.before = BlankDisplay
    /\ last_draw.sprite = << 240, 144, 144, 144, 240 >>
    /\ chip8.display = {31 * 64 + 63}

(***************************************************************************)
(* C24.  Call and return are inverse on control state: a call (2NNN)       *)
(* fetched at address A with fewer than 16 stack entries pushes A + 2 and  *)
(* sets PC = nnn; a return (00EE) on a non-empty stack sets PC to the      *)
(* newest entry and removes it, so the return that pops the entry of a     *)
(* call sets PC = A + 2 and leaves the stack as it was before the call,    *)
(* and nested calls return in last-in first-out order; no other            *)
(* instruction touches the stack.                                          *)
(***************************************************************************)
C24_CallReturnInverse ==
    [][phase = "exec" =>
        LET A == chip8.pc - 2
        IN  /\ (ExecOp.op = "Call" /\ Len(chip8.stack) < STACK_SIZE) =>
                  /\ ExecutedOk
                  /\ Byte(chip8.memory, A) * 256 + Byte(chip8.memory, A + 1)
                        = chip8.current_instruction
                  /\ chip8'.stack = Append(chip8.stack, A + 2)
                  /\ chip8'.pc = chip8.current_instruction % 4096
            /\ (ExecOp.op = "Return" /\ chip8.stack # << >>) =>
                  /\ ExecutedOk
                  /\ Append(chip8'.stack, chip8'.pc) = chip8.stack
            /\ ExecOp.op \notin {"Call", "Return"} => chip8'.stack = chip8.stack]_vars

\* the return at 0x206 has followed the return at 0x208: the inner call
\* (pushed 0x206) returned first, then the outer (pushed 0x202), and the stack
\* is empty as before the two calls
C24_NestedCallsReturned ==
    /\ rom = NestedCallProgram
    /\ phase = "poll"
    /\ ExecOp.op = "Return"
    /\ chip8.pc = 514
    /\ chip8.stack = << >>

(***************************************************************************)
(* Vocabulary of C25                                                       *)
(***************************************************************************)
\* a cycle that finds the gate open fails with ProgramCounterOutOfBounds
\* carrying PC, nothing fetched, when PC is at or beyond `first_refused`; for
\* every smaller PC it fetches the big-endian word at PC from inside memory
\* and advances PC by exactly 2
FetchesBelow(first_refused) ==
    (phase = "top" /\ chip8.running /\ Gate(chip8)) =>
        IF chip8.pc >= first_refused
        THEN /\ phase' = "done"
             /\ result' = PCOutOfBounds(chip8.pc)
             /\ chip8'.pc = chip8.pc
             /\ chip8'.current_instruction = chip8.current_instruction
        ELSE /\ chip8.pc + 1 < MEMORY_SIZE
             /\ phase' = "exec"
             /\ result' = NoError
             /\ chip8'.current_instruction =
                    Byte(chip8.memory, chip8.pc) * 256 + Byte(chip8.memory, chip8.pc + 1)
             /\ chip8'.pc = chip8.pc + 2

(***************************************************************************)
(* C25 as claimed.  A Running cycle whose PC is at or beyond the last      *)
(* valid 2-byte-aligned slot (address 0xFFE) fails with                    *)
(* ProgramCounterOutOfBounds carrying that PC and fetches nothing; for     *)
(* every smaller PC the fetch reads the big-endian word                    *)
(* memory[PC]*256 + memory[PC+1] from inside memory and advances PC by     *)
(* exactly 2.                                                              *)
(***************************************************************************)
C25_RefusedFromLastSlot == [][FetchesBelow(4094)]_vars

(***************************************************************************)
(* C25 as amended.  A Running cycle whose PC is at or beyond the last byte *)
(* of memory (address 0xFFF) fails with ProgramCounterOutOfBounds carrying *)
(* that PC and fetches nothing; for every smaller PC, the last 2-byte slot *)
(* 0xFFE included, the fetch reads the big-endian word                     *)
(* memory[PC]*256 + memory[PC+1] from inside memory and advances PC by     *)
(* exactly 2.                                                              *)
(***************************************************************************)
C25_RefusedFromLastByte == [][FetchesBelow(4095)]_vars

\* the instruction in the last slot (0xFFE: V0 = 1) was fetched and executed,
\* and the next cycle failed with PC = 0x1000
C25_LastSlotExecuted ==
    /\ rom = LastSlotProgram
    /\ phase = "done"
    /\ result = PCOutOfBounds(4096)
    /\ chip8.current_instruction = 24577
    /\ chip8.regs[0] = 1

(***************************************************************************)
(* C26.  Whenever the 60 Hz gate fires in a Running cycle, each of the     *)
(* delay and sound timers decreases by exactly 1 if it is nonzero and      *)
(* stays 0 if it is 0, independently of the other; a timer never goes      *)
(* below 0 or wraps to 255, and apart from gate firings a timer changes    *)
(* only through set-delay-timer / set-sound-timer (to the value of Vx) or  *)
(* reset (to 0).                                                           *)
(***************************************************************************)
C26_TimersStepDown ==
    [][LET delay == chip8.delay_timer
           sound == chip8.sound_timer
           stepped(t) == IF t > 0 THEN t - 1 ELSE 0
       IN  /\ chip8'.delay_timer \in 0..255
           /\ chip8'.sound_timer \in 0..255
           /\ phase = "top" =>
                 \/ chip8'.delay_timer = delay /\ chip8'.sound_timer = sound
                 \/ /\ chip8.running /\ Gate(chip8)
                    /\ chip8'.delay_timer = stepped(delay)
                    /\ chip8'.sound_timer = stepped(sound)
           /\ phase = "exec" =>
                 /\ chip8'.delay_timer =
                        IF ExecOp.op = "SetDelay" THEN chip8.regs[ExecOp.x] ELSE delay
                 /\ chip8'.sound_timer =
                        IF ExecOp.op = "SetSound" THEN chip8.regs[ExecOp.x] ELSE sound
           /\ phase = "poll" =>
                 \/ chip8'.delay_timer = delay /\ chip8'.sound_timer = sound
                 \/ /\ BitAnd(polled'.result, RESET) # 0
                    /\ chip8'.delay_timer = 0 /\ chip8'.sound_timer = 0]_vars

\* delay was set to 2 and stepped down to 0, sound was set to 3 later and has
\* stepped down to 1 while delay stayed at 0
C26_DelayAtZeroSoundRunning ==
    /\ rom \in TimerPrograms
    /\ phase = "top"
    /\ chip8.pc = 520
    /\ chip8.regs[1] = 2 /\ chip8.regs[2] = 3
    /\ chip8.delay_timer = 0
    /\ chip8.sound_timer = 1

(***************************************************************************)
(* C27.  Every memory access made by an executed instruction is inside     *)
(* memory: in every reachable state, for any loaded program, the addresses *)
(* touched by store-bcd (I..I+2), store-registers and load-registers       *)
(* (I..I+x) and sprite draw (I..I+n-1) are all below 4096, and             *)
(* add-to-index (FX1E) never pushes I past 16 bits; so the only ways an    *)
(* instruction can fail are the listed error kinds (InvalidOpcode,         *)
(* StackOverflow, StackUnderflow, InvalidRegister,                         *)
(* ProgramCounterOutOfBounds).                                             *)
(***************************************************************************)
C27_AccessesInsideMemory ==
    [][phase = "exec" =>
        /\ ExecOp.op = "StoreBCD" => chip8.i + 2 < MEMORY_SIZE
        /\ ExecOp.op \in {"StoreRegs", "LoadRegs"} =>
                chip8.i + ExecOp.x < MEMORY_SIZE
        /\ (ExecOp.op = "Draw" /\ ExecOp.n > 0) =>
                chip8.i + ExecOp.n - 1 < MEMORY_SIZE
        /\ ExecOp.op = "AddI" => chip8.i + chip8.regs[ExecOp.x] < U16
        /\ result'.kind \in {"None", "InvalidOpcode", "StackOverflow",
                              "StackUnderflow", "InvalidRegister",
                              "PCOutOfBounds"}]_vars

====
